---- MODULE Spec2Model ----
(***************************************************************************)
(* Model of site_scons/makePot.py (OSARA translation template builder)    *)
(* and, at the end, of tools/sortKeymap.py (keymap sorting utility).       *)
(*                                                                         *)
(* Text is modelled as a sequence of tokens.  A token is a maximal piece   *)
(* of text that the regular expressions of makePot.py treat as a unit:     *)
(*   "T"  translate(  or  _t(          "X"  translate_ctxt(                *)
(*   "P"  translate_plural(            "Q"  a double quote                 *)
(*   "R"  )        "C"  ,        "S"  a blank        "N"  a line break     *)
(*   "K"  // Translators:<blank>       "G"  //<blank>                      *)
(*   "a", "b"  letters (word characters)                                   *)
(*   "CAPTION", "LTEXT", "PUSHBUTTON"  resource commands                   *)
(* An input line is a token sequence without "N"; reading it from the file *)
(* yields the line followed by "N".                                        *)
(***************************************************************************)
EXTENDS Integers, Sequences, FiniteSets, TLC

\* ------------------------------------------------------------------ bounds
MaxReads == 4    \* input lines read in the whole behaviour

\* ------------------------------------------------------------ basic values
\* Python's None; also the text that '%s' % None renders.
NoneV == <<"None">>

\* Python truthiness of an optional string: neither None nor "".
Truthy(x) == x # NoneV /\ x # <<>>

\* variant of IsSpace: [ \t] in place of \s, which leaves the line break out
IsSpaceNoNewline(t) == t = "S"

\* \s : blank or line break
IsSpace(t) == t \in {"S", "N"}

\* \w : the word characters of the alphabet
IsWord(t) == t \in {"a", "b"}

\* ------------------------------------------------- regular-expression parts
\* \s* from position i: the first position that is not white space
RECURSIVE SkipWs(_, _)
SkipWs(b, i) == IF i <= Len(b) /\ IsSpace(b[i]) THEN SkipWs(b, i + 1) ELSE i

\* [^)]* from position i: the first position holding ")" (or the end)
RECURSIVE SkipNotClose(_, _)
SkipNotClose(b, i) ==
    IF i <= Len(b) /\ b[i] # "R" THEN SkipNotClose(b, i + 1) ELSE i

\* .*?" from position k: the first quote reached without crossing a line
\* break; 0 if there is none
RECURSIVE CloseQuote(_, _)
CloseQuote(b, k) ==
    IF k > Len(b) \/ b[k] = "N" THEN 0
    ELSE IF b[k] = "Q" THEN k
    ELSE CloseQuote(b, k + 1)

\* (?:"(?P<g>.*?)"|[^)]*) at position i: the captured group, the position
\* after the alternative and the positions of the quoted string (if any).  Everything after it in the three
\* patterns can match the empty string, so the first alternative that
\* matches is the one the match keeps.
Arg(b, i) ==
    LET k == IF i <= Len(b) /\ b[i] = "Q" THEN CloseQuote(b, i + 1) ELSE 0
    IN IF k # 0
       THEN [val |-> SubSeq(b, i + 1, k - 1), next |-> k + 1, quoted |-> i..k]
       ELSE [val |-> NoneV, next |-> SkipNotClose(b, i), quoted |-> {}]

\* ,?
OptComma(b, i) == IF i <= Len(b) /\ b[i] = "C" THEN i + 1 ELSE i

\* (?P<end>\))?
HasEnd(b, i) == i <= Len(b) /\ b[i] = "R"

\* RE_CPP_TRANSLATE matched at the marker at position i
MatchTranslate(b, i) ==
    LET a == Arg(b, SkipWs(b, i + 1))
        e == SkipWs(b, a.next)
    IN [kind |-> "T", start |-> i, context |-> NoneV, msgid |-> a.val,
        plural |-> NoneV, end |-> HasEnd(b, e), quoted |-> a.quoted,
        stop |-> IF HasEnd(b, e) THEN e + 1 ELSE e]

\* RE_CPP_TRANSLATE_CTXT matched at the marker at position i
MatchTranslateCtxt(b, i) ==
    LET c == Arg(b, SkipWs(b, i + 1))
        a == Arg(b, SkipWs(b, OptComma(b, c.next)))
        e == SkipWs(b, a.next)
    IN [kind |-> "X", start |-> i, context |-> c.val, msgid |-> a.val,
        plural |-> NoneV, end |-> HasEnd(b, e),
        quoted |-> c.quoted \cup a.quoted,
        stop |-> IF HasEnd(b, e) THEN e + 1 ELSE e]

\* RE_CPP_TRANSLATE_PLURAL matched at the marker at position i
MatchTranslatePlural(b, i) ==
    LET a == Arg(b, SkipWs(b, i + 1))
        p == Arg(b, SkipWs(b, OptComma(b, a.next)))
        e == SkipWs(b, SkipNotClose(b, SkipWs(b, OptComma(b, p.next))))
    IN [kind |-> "P", start |-> i, context |-> NoneV, msgid |-> a.val,
        plural |-> p.val, end |-> HasEnd(b, e),
        quoted |-> a.quoted \cup p.quoted,
        stop |-> IF HasEnd(b, e) THEN e + 1 ELSE e]

MatchAt(kind, b, i) ==
    IF kind = "T" THEN MatchTranslate(b, i)
    ELSE IF kind = "X" THEN MatchTranslateCtxt(b, i)
    ELSE MatchTranslatePlural(b, i)

\* \b before the marker: start of text or a non-word character before it
Boundary(b, i) == i = 1 \/ ~IsWord(b[i - 1])

\* pattern.finditer(line): the non-overlapping matches, left to right
RECURSIVE FindIter(_, _, _)
FindIter(kind, b, pos) ==
    IF pos > Len(b) THEN <<>>
    ELSE IF b[pos] = kind /\ Boundary(b, pos)
         THEN LET m == MatchAt(kind, b, pos)
              IN <<m>> \o FindIter(kind, b, m.stop)
         ELSE FindIter(kind, b, pos + 1)

\* lines 85-87: the matches of the three patterns, grouped by pattern
CppMatches(b) ==
    FindIter("T", b, 1) \o FindIter("X", b, 1) \o FindIter("P", b, 1)

\* variant of AllEnd: any() in place of all()
AnyEnd(ms) == \E i \in 1..Len(ms) : ms[i].end

\* line 91: all(m.group("end") for m in matches)
AllEnd(ms) == \A i \in 1..Len(ms) : ms[i].end

\* m.groupdict() of a C++ match, as addMessage uses it: the "plural" key is
\* present exactly for RE_CPP_TRANSLATE_PLURAL, whatever its value
CppData(m) ==
    [context |-> m.context, msgid |-> m.msgid,
     hasPlural |-> m.kind = "P", plural |-> m.plural]

\* ------------------------------------------------------- resource pattern
Commands ==
    {"CAPTION", "LTEXT", "DEFPUSHBUTTON", "PUSHBUTTON", "GROUPBOX", "CONTROL"}

\* RE_RC_TRANSLATE.match(line)
RcMatch(b) ==
    LET j == SkipWs(b, 1)
        k == SkipWs(b, j + 1)
        q == IF k <= Len(b) /\ b[k] = "Q" THEN CloseQuote(b, k + 1) ELSE 0
    IN IF j <= Len(b) /\ b[j] \in Commands /\ k > j + 1 /\ q # 0
       THEN [matched |-> TRUE, command |-> b[j],
             msgid |-> SubSeq(b, k + 1, q - 1)]
       ELSE [matched |-> FALSE, command |-> "", msgid |-> NoneV]

\* --------------------------------------------------------- comment tracker
\* RE_TRANSLATORS_COMMENT.match(line)
IsTranslatorsComment(b) ==
    LET j == SkipWs(b, 1) IN j <= Len(b) /\ b[j] = "K"

\* RE_COMMENT.match(line)
IsComment(b) ==
    LET j == SkipWs(b, 1) IN j <= Len(b) /\ b[j] \in {"K", "G"}

\* group(1) of either comment pattern: the text up to the line break
CommentText(b) == SubSeq(b, SkipWs(b, 1) + 1, Len(b) - 1)

\* variant of handleTranslatorsComment: a '// ' line is consumed in either
\* state of the tracker
handleTranslatorsCommentAnyState(b, inTC, ltc) ==
    IF IsTranslatorsComment(b)
    THEN [consumed |-> TRUE, inTC |-> TRUE, ltc |-> Append(ltc, CommentText(b))]
    ELSE IF IsComment(b)
         THEN [consumed |-> TRUE, inTC |-> inTC,
               ltc |-> Append(ltc, CommentText(b))]
         ELSE [consumed |-> FALSE, inTC |-> FALSE, ltc |-> ltc]

\* handleTranslatorsComment(line), on the globals passed in
handleTranslatorsComment(b, inTC, ltc) ==
    IF IsTranslatorsComment(b)
    THEN [consumed |-> TRUE, inTC |-> TRUE, ltc |-> Append(ltc, CommentText(b))]
    ELSE IF inTC
         THEN IF IsComment(b)
              THEN [consumed |-> TRUE, inTC |-> TRUE,
                    ltc |-> Append(ltc, CommentText(b))]
              ELSE [consumed |-> FALSE, inTC |-> FALSE, ltc |-> ltc]
         ELSE [consumed |-> FALSE, inTC |-> inTC, ltc |-> ltc]

\* ------------------------------------------------------------ catalog store
KeyOf(data) == <<data.context, data.msgid>>

\* position of a key in the ordered catalog, 0 if absent
IndexOf(msgs, key) ==
    IF \E i \in 1..Len(msgs) : msgs[i].key = key
    THEN CHOOSE i \in 1..Len(msgs) : msgs[i].key = key
    ELSE 0

\* variant of SetDefault: an assignment messages[key] = data, which replaces
\* the plural of an entry that is already there
SetDefaultOverwrite(msgs, data) ==
    IF IndexOf(msgs, KeyOf(data)) # 0
    THEN [msgs EXCEPT ![IndexOf(msgs, KeyOf(data))].hasPlural = data.hasPlural,
                      ![IndexOf(msgs, KeyOf(data))].plural = data.plural]
    ELSE Append(msgs, [key |-> KeyOf(data), context |-> data.context,
                       msgid |-> data.msgid, hasPlural |-> data.hasPlural,
                       plural |-> data.plural, comments |-> <<>>])

\* variant of SetDefault: an entry that is already there moves to the end
SetDefaultMoveToEnd(msgs, data) ==
    IF IndexOf(msgs, KeyOf(data)) # 0
    THEN LET i == IndexOf(msgs, KeyOf(data))
         IN SubSeq(msgs, 1, i - 1) \o SubSeq(msgs, i + 1, Len(msgs))
            \o <<msgs[i]>>
    ELSE Append(msgs, [key |-> KeyOf(data), context |-> data.context,
                       msgid |-> data.msgid, hasPlural |-> data.hasPlural,
                       plural |-> data.plural, comments |-> <<>>])

\* line 71: messages.setdefault(key, data)
SetDefault(msgs, data) ==
    IF IndexOf(msgs, KeyOf(data)) # 0 THEN msgs
    ELSE Append(msgs, [key |-> KeyOf(data), context |-> data.context,
                       msgid |-> data.msgid, hasPlural |-> data.hasPlural,
                       plural |-> data.plural, comments |-> <<>>])

\* variant of AttachComments: the pending comments replace the entry's comments
AttachCommentsOverwrite(msgs, i, ltc) ==
    IF ltc # <<>>
    THEN [msgs EXCEPT ![i].comments = ltc]
    ELSE msgs

\* lines 72-75: attach the pending comments to the entry and clear them
AttachComments(msgs, i, ltc) ==
    IF ltc # <<>>
    THEN [msgs EXCEPT ![i].comments = @ \o ltc]
    ELSE msgs

\* variant of addMessage: the pending comments are attached and not cleared
addMessageKeepBuffer(msgs, ltc, data) ==
    IF ~Truthy(data.msgid)
    THEN [ok |-> FALSE, messages |-> msgs, ltc |-> ltc]
    ELSE LET m1 == SetDefault(msgs, data)
         IN [ok |-> TRUE,
             messages |-> AttachComments(m1, IndexOf(m1, KeyOf(data)), ltc),
             ltc |-> ltc]

\* addMessage(data), on the globals passed in
addMessage(msgs, ltc, data) ==
    IF ~Truthy(data.msgid)
    THEN [ok |-> FALSE, messages |-> msgs, ltc |-> ltc]
    ELSE LET m1 == SetDefault(msgs, data)
         IN [ok |-> TRUE,
             messages |-> AttachComments(m1, IndexOf(m1, KeyOf(data)), ltc),
             ltc |-> <<>>]

\* one record of the log of addMessage calls
CallOf(data, ltc) ==
    [key |-> KeyOf(data), hasPlural |-> data.hasPlural,
     plural |-> data.plural, buf |-> ltc]

\* variant of InsertMatches: a skipped match drops the pending comments
RECURSIVE InsertMatchesClearOnSkip(_, _, _, _, _)
InsertMatchesClearOnSkip(ms, i, msgs, ltc, log) ==
    IF i > Len(ms) THEN [messages |-> msgs, ltc |-> ltc, log |-> log]
    ELSE IF ~Truthy(ms[i].msgid)
         THEN InsertMatchesClearOnSkip(ms, i + 1, msgs, <<>>, log)
         ELSE LET r == addMessage(msgs, ltc, CppData(ms[i]))
              IN InsertMatchesClearOnSkip(ms, i + 1, r.messages, r.ltc,
                               Append(log, CallOf(CppData(ms[i]), ltc)))

\* variant of InsertMatches: only a match without msgid group is skipped
\* (is None in place of not), so that an empty literal reaches addMessage
RECURSIVE InsertMatchesSkipNoneOnly(_, _, _, _, _)
InsertMatchesSkipNoneOnly(ms, i, msgs, ltc, log) ==
    IF i > Len(ms) THEN [messages |-> msgs, ltc |-> ltc, log |-> log]
    ELSE IF ms[i].msgid = NoneV
         THEN InsertMatchesSkipNoneOnly(ms, i + 1, msgs, ltc, log)
         ELSE LET r == addMessage(msgs, ltc, CppData(ms[i]))
              IN InsertMatchesSkipNoneOnly(ms, i + 1, r.messages, r.ltc,
                               Append(log, CallOf(CppData(ms[i]), ltc)))

\* lines 97-102: the loop over the matches, from match i on; log is the
\* record of the addMessage calls made
RECURSIVE InsertMatches(_, _, _, _, _)
InsertMatches(ms, i, msgs, ltc, log) ==
    IF i > Len(ms) THEN [messages |-> msgs, ltc |-> ltc, log |-> log]
    ELSE IF ~Truthy(ms[i].msgid)
         THEN InsertMatches(ms, i + 1, msgs, ltc, log)
         ELSE LET r == addMessage(msgs, ltc, CppData(ms[i]))
              IN InsertMatches(ms, i + 1, r.messages, r.ltc,
                               Append(log, CallOf(CppData(ms[i]), ltc)))

\* ---------------------------------------------------------------- serializer
Header == [tag |-> "header", val |-> <<>>]

\* lines 33-44: the lines written for one entry
EntryLines(e) ==
    [i \in 1..Len(e.comments) |-> [tag |-> "#.", val |-> e.comments[i]]]
    \o (IF Truthy(e.context)
        THEN <<[tag |-> "msgctxt", val |-> e.context]>> ELSE <<>>)
    \o <<[tag |-> "msgid", val |-> e.msgid]>>
    \o (IF e.hasPlural
        THEN <<[tag |-> "msgid_plural", val |-> e.plural],
               [tag |-> "msgstr[0]", val |-> <<>>],
               [tag |-> "msgstr[1]", val |-> <<>>]>>
        ELSE <<[tag |-> "msgstr", val |-> <<>>]>>)
    \o <<[tag |-> "blank", val |-> <<>>]>>

\* line 32: the loop over messages.items()
RECURSIVE Serialize(_, _)
Serialize(msgs, i) ==
    IF i > Len(msgs) THEN <<>>
    ELSE EntryLines(msgs[i]) \o Serialize(msgs, i + 1)

\* ------------------------------------------------------------------- inputs
\* The lines a .cpp file is made of: comments, calls of the three shapes on
\* one line, and pieces of calls that are broken across lines.
CppLines ==
    { <<"K", "a">>,                                    \* // Translators: a
      <<"G", "b">>,                                    \* // b
      <<"T", "Q", "a", "Q", "R">>,                     \* translate("a")
      <<"X", "Q", "b", "Q", "C", "Q", "a", "Q", "R">>, \* translate_ctxt("b","a")
      <<"P", "Q", "a", "Q", "C", "Q", "b", "Q", "C", "a", "R">>,
                                                       \* translate_plural("a","b",a)
      <<"T", "a", "R">>,                               \* translate(a)
      <<"T", "Q", "Q", "R">>,                          \* translate("")
      <<"P", "Q", "b", "Q", "C", "a", "C", "a", "R">>, \* translate_plural("b",a,a)
      <<"X", "Q", "Q", "C", "Q", "a", "Q", "R">>,      \* translate_ctxt("","a")
      <<"P", "Q", "b", "Q", "C", "Q", "a", "Q", "C", "a", "R", "S",
        "T", "Q", "a", "Q", "R">>,     \* translate_plural("b","a",a) translate("a")
      <<"T", "Q", "a", "Q", "R", "S", "X", "Q", "b", "Q", "C">>,
                                         \* translate("a") translate_ctxt("b",
      <<"T">>,                                         \* translate(
      <<"Q", "a", "Q", "R">>,                          \* "a")
      <<"X", "Q", "b", "Q", "C">>,                     \* translate_ctxt("b",
      <<"T", "Q", "a">>,                               \* translate("a
      <<"b", "Q", "R">>                                \* b")
    }

\* The lines a .rc file is made of.
RcLines ==
    { <<"CAPTION", "S", "Q", "a", "Q">>,
      <<"CAPTION", "S", "Q", "b", "Q">>,
      <<"CAPTION", "S", "Q", "Q">>,
      <<"LTEXT", "S", "Q", "a", "Q">>,
      <<"LTEXT", "S", "Q", "Q">>,
      <<"S", "CONTROL", "S", "S", "Q", "b", "Q", "C", "a">>,
      <<"LTEXT", "Q", "a", "Q">>,
      <<"K", "a">> }

\* ---------------------------------------------------------------------- state
VARIABLES
    pc,                      \* where the process is: "idle" (makePot not
                             \* called yet), "files" (line 25), "cpp" (line
                             \* 81), "scan" (line 96), "rc" (line 107),
                             \* "done" (makePot returned), "aborted"
    err,                     \* the exception that aborted the invocation
    messages,                \* global messages (ordered catalog)
    lastTranslatorsComment,  \* global pending-comment buffer
    inTranslatorsComment,    \* global comment-tracker flag
    out,                     \* what has been written to the target file
    line,                    \* addCpp: the line buffer
    context,                 \* addRc: the current context
    read,                    \* addRc: the lines read from the current file
    calls,                   \* log of the addMessage calls of the process
    nreads                   \* number of lines read, for the bound

\* tools/sortKeymap.py, a separate program: the state of one call of main
VARIABLES
    kpc,          \* where main is: "off" (not called), "start", "read"
                  \* (line 59), "backup" (line 65), "sort" (line 68), "open"
                  \* (line 69), "write" (line 70), "except" (line 72),
                  \* "returned", "raised" (an exception left main)
    argTest,      \* args.test
    argOutput,    \* args.output names a path other than args.file
    given,        \* the file at args.file when main was called
    fileAt,       \* the file at args.file
    bakAt,        \* the file at args.file + '.bak'
    outAt,        \* the file at args.output
    orig,         \* local orig: the lines read
    sortedLines,  \* local sorted
    ret           \* the value main returned: 0, 1, or -1 for none

makePotVars == <<pc, err, messages, lastTranslatorsComment,
                 inTranslatorsComment, out, line, context, read, calls,
                 nreads>>

keymapVars == <<kpc, argTest, argOutput, given, fileAt, bakAt, outAt, orig,
                sortedLines, ret>>

vars == <<makePotVars, keymapVars>>

\* no file at a path
NoFile == [exists |-> FALSE, lines |-> <<>>]

\* a file holding the lines ls
FileOf(ls) == [exists |-> TRUE, lines |-> ls]

\* sortKeymap.main is not running
KeymapOff ==
    /\ kpc = "off"
    /\ argTest = FALSE
    /\ argOutput = FALSE
    /\ given = NoFile
    /\ fileAt = NoFile
    /\ bakAt = NoFile
    /\ outAt = NoFile
    /\ orig = <<>>
    /\ sortedLines = <<>>
    /\ ret = -1

globals == <<messages, lastTranslatorsComment, inTranslatorsComment>>

Init ==
    /\ pc = "idle"
    /\ err = "none"
    /\ messages = <<>>
    /\ lastTranslatorsComment = <<>>
    /\ inTranslatorsComment = FALSE
    /\ out = <<>>
    /\ line = <<>>
    /\ context = NoneV
    /\ read = <<>>
    /\ calls = <<>>
    /\ nreads = 0
    /\ KeymapOff

\* ------------------------------------------------------------------ makePot
\* lines 15-24: open the target for writing and write the header
MakePotOpen ==
    /\ pc \in {"idle", "done", "aborted"}
    /\ pc' = "files"
    /\ err' = "none"
    /\ out' = <<Header>>
    /\ line' = <<>>
    /\ context' = NoneV
    /\ read' = <<>>
    /\ UNCHANGED <<globals, calls, nreads>>
    /\ UNCHANGED keymapVars

\* lines 25-29: the next source is a .cpp or .mm file
OpenCpp ==
    /\ pc = "files"
    /\ pc' = "cpp"
    /\ UNCHANGED <<err, globals, out, line, context, read, calls, nreads>>
    /\ UNCHANGED keymapVars

\* lines 25-27, 30-31, 106: the next source is a .rc file; sources with
\* another suffix are opened and not scanned, which changes nothing
OpenRc ==
    /\ pc = "files"
    /\ pc' = "rc"
    /\ context' = NoneV
    /\ read' = <<>>
    /\ UNCHANGED <<err, globals, out, line, calls, nreads>>
    /\ UNCHANGED keymapVars

\* lines 32-44: all sources scanned, write the entries
WriteEntries ==
    /\ pc = "files"
    /\ out' = out \o Serialize(messages, 1)
    /\ pc' = "done"
    /\ UNCHANGED <<err, globals, line, context, read, calls, nreads>>
    /\ UNCHANGED keymapVars

\* ------------------------------------------------------------------- addCpp
\* lines 84-102 on the buffer b: when every match is complete the messages
\* are added and the for loop goes on; otherwise the while loop needs the
\* next line
Scan(b, msgs, ltc, log) ==
    IF AllEnd(CppMatches(b))
    THEN [pc |-> "cpp"] @@ InsertMatches(CppMatches(b), 1, msgs, ltc, log)
    ELSE [pc |-> "scan", messages |-> msgs, ltc |-> ltc, log |-> log]

\* lines 81-102: the for loop takes the next line; the comment tracker sees
\* it first, and a line it does not consume is scanned
CppLine ==
    /\ pc = "cpp"
    /\ nreads < MaxReads
    /\ \E l \in CppLines :
         \E h \in {handleTranslatorsComment(l \o <<"N">>, inTranslatorsComment,
                                            lastTranslatorsComment)} :
            /\ line' = l \o <<"N">>
            /\ inTranslatorsComment' = h.inTC
            /\ IF h.consumed
               THEN /\ lastTranslatorsComment' = h.ltc
                    /\ UNCHANGED <<pc, messages, calls>>
               ELSE \E r \in {Scan(l \o <<"N">>, messages, h.ltc, calls)} :
                       /\ pc' = r.pc
                       /\ messages' = r.messages
                       /\ lastTranslatorsComment' = r.ltc
                       /\ calls' = r.log
    /\ nreads' = nreads + 1
    /\ UNCHANGED <<err, out, context, read>>
    /\ UNCHANGED keymapVars

\* line 81: the for loop finds the file exhausted, addCpp returns
CppEof ==
    /\ pc = "cpp"
    /\ pc' = "files"
    /\ line' = <<>>
    /\ UNCHANGED <<err, globals, out, context, read, calls, nreads>>
    /\ UNCHANGED keymapVars

\* lines 96, 84-102: a match is incomplete; the next line is added to the
\* buffer, which is scanned again
CppContinue ==
    /\ pc = "scan"
    /\ nreads < MaxReads
    /\ \E l \in CppLines :
         \E r \in {Scan(line \o l \o <<"N">>, messages,
                        lastTranslatorsComment, calls)} :
            /\ line' = line \o l \o <<"N">>
            /\ pc' = r.pc
            /\ messages' = r.messages
            /\ lastTranslatorsComment' = r.ltc
            /\ calls' = r.log
    /\ nreads' = nreads + 1
    /\ UNCHANGED <<err, inTranslatorsComment, out, context, read>>
    /\ UNCHANGED keymapVars

\* line 96: a match is incomplete and the file is exhausted: next(input)
\* raises StopIteration, which leaves addCpp and makePot
CppUnterminated ==
    /\ pc = "scan"
    /\ pc' = "aborted"
    /\ err' = "StopIteration"
    /\ UNCHANGED <<globals, out, line, context, read, calls, nreads>>
    /\ UNCHANGED keymapVars

\* -------------------------------------------------------------------- addRc
\* variant of RcContextAfter: only the first CAPTION of a file sets the context
RcContextAfterKeepFirst(ctx, m) ==
    IF m.command = "CAPTION" /\ ~Truthy(ctx) THEN m.msgid ELSE ctx

\* lines 113-114: a CAPTION statement sets the context
RcContextAfter(ctx, m) == IF m.command = "CAPTION" THEN m.msgid ELSE ctx

\* variant of RcOutcome: a CAPTION statement sets the context and is not
\* inserted
RcOutcomeCaptionNotInserted(ctx, m) ==
    IF ~Truthy(ctx) THEN "raise"
    ELSE IF ~Truthy(m.msgid) \/ m.command = "CAPTION" THEN "skip"
    ELSE "add"

\* variant of RcOutcome: the empty label is tested before the context
RcOutcomeSkipFirst(ctx, m) ==
    IF ~Truthy(m.msgid) THEN "skip"
    ELSE IF ~Truthy(ctx) THEN "raise"
    ELSE "add"

\* lines 115-120: what happens to a matched statement under context ctx
RcOutcome(ctx, m) ==
    IF ~Truthy(ctx) THEN "raise"
    ELSE IF ~Truthy(m.msgid) THEN "skip"
    ELSE "add"

RcData(ctx, m) ==
    [context |-> ctx, msgid |-> m.msgid, hasPlural |-> FALSE, plural |-> NoneV]

\* lines 107-120: one iteration of the loop over the lines of a .rc file
RcLine ==
    /\ pc = "rc"
    /\ nreads < MaxReads
    /\ \E l \in RcLines :
         LET text == l \o <<"N">>
             h == handleTranslatorsComment(text, inTranslatorsComment,
                                           lastTranslatorsComment)
             m == RcMatch(text)
             ctx == RcContextAfter(context, m)
             o == RcOutcome(ctx, m)
             r == addMessage(messages, h.ltc, RcData(ctx, m))
         IN /\ read' = Append(read, l)
            /\ inTranslatorsComment' = h.inTC
            /\ IF h.consumed \/ ~m.matched
               THEN /\ lastTranslatorsComment' = h.ltc
                    /\ UNCHANGED <<pc, err, messages, context, calls>>
               ELSE /\ context' = ctx
                    /\ IF o = "raise"
                       THEN /\ pc' = "aborted"
                            /\ err' = "No caption before messages"
                            /\ lastTranslatorsComment' = h.ltc
                            /\ UNCHANGED <<messages, calls>>
                       ELSE IF o = "skip"
                       THEN /\ lastTranslatorsComment' = h.ltc
                            /\ UNCHANGED <<pc, err, messages, calls>>
                       ELSE /\ messages' = r.messages
                            /\ lastTranslatorsComment' = r.ltc
                            /\ calls' = Append(calls, CallOf(RcData(ctx, m), h.ltc))
                            /\ UNCHANGED <<pc, err>>
    /\ nreads' = nreads + 1
    /\ UNCHANGED <<out, line>>
    /\ UNCHANGED keymapVars

\* line 107: the file is exhausted, addRc returns
RcEof ==
    /\ pc = "rc"
    /\ pc' = "files"
    /\ context' = NoneV
    /\ read' = <<>>
    /\ UNCHANGED <<err, globals, out, line, calls, nreads>>
    /\ UNCHANGED keymapVars

Next ==
    \/ MakePotOpen
    \/ OpenCpp
    \/ OpenRc
    \/ WriteEntries
    \/ CppLine
    \/ CppEof
    \/ CppContinue
    \/ CppUnterminated
    \/ RcLine
    \/ RcEof

Spec == Init /\ [][Next]_vars

\* The single thread does not stop inside addCpp: when the file is exhausted
\* the for loop ends (line 81) or next(input) raises (line 96).
SpecLive == Spec /\ WF_vars(CppEof) /\ WF_vars(CppUnterminated)

\* ------------------------------------------------------- derived quantities
\* the calls of the log that were made for a key, in order
CallsFor(log, key) == SelectSeq(log, LAMBDA c : c.key = key)

\* the pending-comment buffers the calls of a key consumed, concatenated
RECURSIVE ConcatBufs(_)
ConcatBufs(cs) ==
    IF cs = <<>> THEN <<>> ELSE Head(cs).buf \o ConcatBufs(Tail(cs))

\* the keys of the log in the order of their first call
RECURSIVE FirstKeys(_, _)
FirstKeys(log, seen) ==
    IF log = <<>> THEN <<>>
    ELSE IF Head(log).key \in seen THEN FirstKeys(Tail(log), seen)
    ELSE <<Head(log).key>> \o FirstKeys(Tail(log), seen \cup {Head(log).key})

\* the (msgctxt, msgid) pairs of the entries of a written file, in order
RECURSIVE WrittenHeads(_, _)
WrittenHeads(o, i) ==
    IF i > Len(o) THEN <<>>
    ELSE IF o[i].tag = "msgid"
         THEN <<[msgctxt |-> IF i > 1 /\ o[i - 1].tag = "msgctxt"
                             THEN o[i - 1].val ELSE NoneV,
                 msgid |-> o[i].val]>> \o WrittenHeads(o, i + 1)
         ELSE WrittenHeads(o, i + 1)

\* how a key is rendered by lines 35-37
RenderKey(key) ==
    [msgctxt |-> IF Truthy(key[1]) THEN key[1] ELSE NoneV, msgid |-> key[2]]

\* --------------------------------------------------------------------- C1
UniqueKeys ==
    \A i, j \in 1..Len(messages) :
        messages[i].key = messages[j].key => i = j

FirstInsertionFields ==
    \A i \in 1..Len(messages) :
        LET cs == CallsFor(calls, messages[i].key)
        IN /\ cs # <<>>
           /\ messages[i].key = <<messages[i].context, messages[i].msgid>>
           /\ messages[i].hasPlural = cs[1].hasPlural
           /\ messages[i].plural = cs[1].plural

OnlyCommentsGrow ==
    \A i \in 1..Len(messages) :
        /\ i <= Len(messages')
        /\ messages'[i].key = messages[i].key
        /\ messages'[i].msgid = messages[i].msgid
        /\ messages'[i].context = messages[i].context
        /\ messages'[i].hasPlural = messages[i].hasPlural
        /\ messages'[i].plural = messages[i].plural
        /\ Len(messages'[i].comments) >= Len(messages[i].comments)
        /\ SubSeq(messages'[i].comments, 1, Len(messages[i].comments))
             = messages[i].comments

\* C1: the catalog holds at most one entry per (context, msgid) key; the
\* msgid, context and plural of an entry are those of the first addMessage
\* call for its key; a step changes nothing in an existing entry except by
\* appending to its comments.
C1_FirstWriterWins ==
    /\ [](UniqueKeys /\ FirstInsertionFields)
    /\ [][OnlyCommentsGrow]_vars

\* a key first inserted without a plural was inserted again with a plural,
\* and its entry has no plural
C1_Witness ==
    \E i \in 1..Len(messages) :
        /\ ~messages[i].hasPlural
        /\ \E j \in 1..Len(calls) :
              calls[j].key = messages[i].key /\ calls[j].hasPlural

\* --------------------------------------------------------------------- C2
KeysKeepPosition ==
    \A i \in 1..Len(messages) :
        i <= Len(messages') /\ messages'[i].key = messages[i].key

\* C2: the entries written by makePot appear in the order in which their key
\* was first inserted, and a re-occurrence of a key moves no entry.
C2_InsertionOrder ==
    /\ [](pc = "done" =>
            WrittenHeads(out, 1) =
              [i \in 1..Len(FirstKeys(calls, {})) |->
                  RenderKey(FirstKeys(calls, {})[i])])
    /\ [][KeysKeepPosition]_vars

\* a file was written with two entries, the key of the first of which
\* occurred again after the second had been inserted
C2_Witness ==
    /\ pc = "done"
    /\ Len(messages) >= 2
    /\ \E h, j \in 1..Len(calls) :
          /\ h < j
          /\ calls[h].key = messages[2].key
          /\ calls[j].key = messages[1].key

\* --------------------------------------------------------------------- C3
\* C3: the comments of every entry are the pending-comment buffers consumed
\* by the insertions of its key, concatenated in the order of the calls, and
\* there is one entry per key.
C3_DedupCommentMerge ==
    /\ UniqueKeys
    /\ \A i \in 1..Len(messages) :
          messages[i].comments = ConcatBufs(CallsFor(calls, messages[i].key))
    /\ \A j \in 1..Len(calls) : IndexOf(messages, calls[j].key) # 0

\* a key was inserted twice, each time with pending comments
C3_Witness ==
    \E i \in 1..Len(messages) :
        \E h, j \in 1..Len(calls) :
            /\ h < j
            /\ calls[h].key = messages[i].key /\ calls[h].buf # <<>>
            /\ calls[j].key = messages[i].key /\ calls[j].buf # <<>>
            /\ messages[i].comments = calls[h].buf \o calls[j].buf

\* --------------------------------------------------------------------- C4
\* C4: if an invocation of makePot aborts, nothing has been written to the
\* output file.
C4_AllOrNothing == pc = "aborted" => out = <<>>

\* --------------------------------------------------------------------- C5
\* C5: every invocation of makePot starts with an empty catalog store, an
\* empty pending-comment buffer and the comment tracker idle.
C5_FreshStatePerInvocation ==
    [][(pc \in {"idle", "done", "aborted"} /\ pc' = "files") =>
          /\ messages' = <<>>
          /\ lastTranslatorsComment' = <<>>
          /\ inTranslatorsComment' = FALSE]_vars

\* ------------------------------------------------------ .rc file history
\* the statement of a line of a .rc file
RcStatement(l) == RcMatch(l \o <<"N">>)

IsCaption(l) == RcStatement(l).matched /\ RcStatement(l).command = "CAPTION"

\* a recognised statement other than CAPTION
IsControl(l) == RcStatement(l).matched /\ RcStatement(l).command # "CAPTION"

HasCaption(rd) == \E i \in 1..Len(rd) : IsCaption(rd[i])

\* the label of the last CAPTION statement among the lines rd
MostRecentCaption(rd) ==
    LET is == {i \in 1..Len(rd) : IsCaption(rd[i])}
    IN IF is = {} THEN NoneV
       ELSE RcStatement(rd[CHOOSE i \in is : \A j \in is : j <= i]).msgid

\* this step is an iteration of the loop of addRc
RcStep == pc = "rc" /\ Len(read') = Len(read) + 1

\* --------------------------------------------------------------------- C6
\* C6: when addRc reads a recognised statement other than CAPTION and no
\* CAPTION statement has been read before it in the file, the invocation
\* aborts with the error and the statement inserts nothing, whether its
\* label is empty or not.
C6_MalformedInput ==
    [][(RcStep /\ IsControl(read'[Len(read')]) /\ ~HasCaption(read)) =>
          /\ pc' = "aborted"
          /\ err' = "No caption before messages"
          /\ messages' = messages
          /\ calls' = calls]_vars

\* the invocation aborted on a control statement with an empty label that
\* no CAPTION statement precedes
C6_Witness ==
    /\ pc = "aborted"
    /\ err = "No caption before messages"
    /\ read # <<>>
    /\ IsControl(read[Len(read)])
    /\ RcStatement(read[Len(read)]).msgid = <<>>
    /\ ~HasCaption(read)

\* --------------------------------------------------------------------- C7
\* C7: a statement other than CAPTION with a non-empty label is inserted
\* with the label of the most recent CAPTION statement read before it in the
\* same file as its context; without such a CAPTION in the file, whatever
\* files were scanned before, nothing is inserted.
C7_ContextTracking ==
    [][(RcStep /\ IsControl(read'[Len(read')])
          /\ Truthy(RcStatement(read'[Len(read')]).msgid)) =>
          IF HasCaption(read)
          THEN /\ pc' = "rc"
               /\ Len(calls') = Len(calls) + 1
               /\ calls'[Len(calls')].key =
                     <<MostRecentCaption(read),
                       RcStatement(read'[Len(read')]).msgid>>
               /\ IndexOf(messages', calls'[Len(calls')].key) # 0
          ELSE /\ pc' = "aborted"
               /\ messages' = messages]_vars

\* a control statement was inserted under the second of two CAPTION
\* statements with different labels
C7_Witness ==
    /\ pc = "rc"
    /\ Len(read) >= 3
    /\ IsControl(read[Len(read)])
    /\ Truthy(RcStatement(read[Len(read)]).msgid)
    /\ \E i \in 1..(Len(read) - 1) :
          /\ IsCaption(read[i])
          /\ RcStatement(read[i]).msgid # MostRecentCaption(read)
    /\ calls # <<>>
    /\ calls[Len(calls)].key =
          <<MostRecentCaption(read), RcStatement(read[Len(read)]).msgid>>

\* ------------------------------------------------------ line-buffer shapes
\* the number of input lines a buffer is made of
NumLines(b) == Cardinality({i \in 1..Len(b) : b[i] = "N"})

\* the same text written on one line: every line break but the final one
\* is a blank
OneLine(b) ==
    [i \in 1..Len(b) |-> IF b[i] = "N" /\ i < Len(b) THEN "S" ELSE b[i]]

\* what addCpp does with the text b as a single line, from the catalog msgs
\* and the pending comments ltc
OneLineOutcome(msgs, ltc, b) ==
    LET ms == CppMatches(b)
        r == InsertMatches(ms, 1, msgs, ltc, <<>>)
    IN IF \A i \in 1..Len(ms) : ms[i].end
       THEN [complete |-> TRUE, messages |-> r.messages, ltc |-> r.ltc]
       ELSE [complete |-> FALSE, messages |-> msgs, ltc |-> ltc]

\* a line break of b lies inside a quoted string that a pattern extracts
\* from the one-line form of b
BreakInLiteral(b) ==
    LET ms == CppMatches(OneLine(b))
    IN \E i \in 1..Len(ms) : \E q \in ms[i].quoted : b[q] = "N"

\* this step of addCpp read a line and scanned the buffer line'
Scanned ==
    /\ pc \in {"cpp", "scan"}
    /\ nreads' = nreads + 1
    /\ ~inTranslatorsComment'

\* this step ended the while loop of addCpp on a buffer of several lines
MultiLineDone == pc = "scan" /\ pc' = "cpp" /\ NumLines(line') > 1

FirstArg(b, i) == SkipWs(b, i + 1)

\* the matches among ms whose msgid is a non-empty string
Inserted(ms) == SelectSeq(ms, LAMBDA m : Truthy(m.msgid))

IsPrefix(s, t) == Len(s) <= Len(t) /\ SubSeq(t, 1, Len(s)) = s

\* the text at position a of the buffer b is not the start of a non-empty
\* string literal
NotALiteral(b, a) ==
    a > Len(b) \/ b[a] # "Q" \/ (a < Len(b) /\ b[a + 1] = "Q")

\* the position of the second argument of the call whose marker is at i and
\* whose first argument is a string literal
SecondArg(b, i) ==
    SkipWs(b, OptComma(b, CloseQuote(b, FirstArg(b, i) + 1) + 1))

\* in the matches ms of the buffer b, a call whose msgid argument (the
\* first one, or the second one of translate_ctxt) is not a non-empty string
\* literal has no msgid
NonLiteralHasNoMsgid(b, ms) ==
    \A i \in 1..Len(ms) :
        LET a == FirstArg(b, ms[i].start)
        IN IF ms[i].kind \in {"T", "P"}
           THEN NotALiteral(b, a) => ~Truthy(ms[i].msgid)
           ELSE (a > Len(b) \/ b[a] # "Q" \/ CloseQuote(b, a + 1) = 0
                 \/ NotALiteral(b, SecondArg(b, ms[i].start)))
                => ~Truthy(ms[i].msgid)

\* C9: a terminated call whose msgid is not a string literal, or is "",
\* makes no addMessage call and raises no error; when no call of the buffer
\* has a msgid the catalog and the pending comments are unchanged; and the
\* pending comments are only ever extended or handed to an addMessage call.
C9_EmptyLiteralSkip ==
    /\ [][(Scanned /\ pc' = "cpp") =>
            \A ms \in {CppMatches(line')} :
               /\ NonLiteralHasNoMsgid(line', ms)
               /\ err' = err
               /\ Len(calls') = Len(calls) + Len(Inserted(ms))
               /\ (Inserted(ms) = <<>> =>
                      /\ messages' = messages
                      /\ lastTranslatorsComment' = lastTranslatorsComment)]_vars
    /\ [][lastTranslatorsComment # <<>> =>
            \/ IsPrefix(lastTranslatorsComment, lastTranslatorsComment')
            \/ \E j \in (Len(calls) + 1)..Len(calls') :
                  calls'[j].buf = lastTranslatorsComment]_vars

\* a line with a terminated call without msgid was scanned while comments
\* were pending, and they are still pending
C9_Witness ==
    /\ pc = "cpp"
    /\ ~inTranslatorsComment
    /\ lastTranslatorsComment # <<>>
    /\ CppMatches(line) # <<>>
    /\ \A i \in 1..Len(CppMatches(line)) :
          CppMatches(line)[i].end /\ ~Truthy(CppMatches(line)[i].msgid)

\* -------------------------------------------------------------------- C10
\* some call among the matches ms has not reached its closing delimiter
Unterminated(ms) == \E i \in 1..Len(ms) : ~ms[i].end

\* C10: addCpp terminates; it returns only after every call it found was
\* terminated and aborts only on an unterminated call at the end of the
\* input; nothing is inserted while a call of the buffer is unterminated,
\* and the calls of the final buffer are inserted once each, in the order
\* of the matches.
C10_UnterminatedAndTermination ==
    /\ [][Scanned =>
            \A ms \in {CppMatches(line')} :
            \A ins \in {Inserted(ms)} :
               IF Unterminated(ms)
               THEN /\ messages' = messages
                    /\ calls' = calls
                    /\ pc' = "scan"
               ELSE /\ pc' = "cpp"
                    /\ Len(calls') = Len(calls) + Len(ins)
                    /\ SubSeq(calls', 1, Len(calls)) = calls
                    /\ \A i \in 1..Len(ins) :
                          calls'[Len(calls) + i].key
                             = <<ins[i].context, ins[i].msgid>>]_vars
    /\ [][(pc \in {"cpp", "scan"} /\ pc' = "aborted") =>
            /\ pc = "scan"
            /\ Unterminated(CppMatches(line))
            /\ nreads' = nreads
            /\ err' = "StopIteration"]_vars
    /\ [][(pc \in {"cpp", "scan"} /\ pc' = "files") => pc = "cpp"]_vars
    /\ (pc \in {"cpp", "scan"}) ~> (pc \in {"files", "aborted"})

\* a buffer of several lines with two messages was completed, and the
\* addMessage calls made are those two messages
C10_Witness ==
    /\ pc = "cpp"
    /\ NumLines(line) > 1
    /\ Len(Inserted(CppMatches(line))) = 2
    /\ Len(calls) = 2
    /\ \A i \in 1..2 :
          calls[i].key = <<Inserted(CppMatches(line))[i].context,
                           Inserted(CppMatches(line))[i].msgid>>

\* -------------------------------------------------------------------- C11
\* the positions of the msgid lines of a written file, in order
MsgidLines(o) == SelectSeq([i \in 1..Len(o) |-> i], LAMBDA i : o[i].tag = "msgid")

\* the tags of the lines that follow line i of a written file, up to the
\* blank line that ends the entry
RECURSIVE TagsAfter(_, _)
TagsAfter(o, i) ==
    IF i >= Len(o) \/ o[i + 1].tag = "blank" THEN <<>>
    ELSE <<o[i + 1].tag>> \o TagsAfter(o, i + 1)

\* C11: in a written file, the k-th entry has the msgid_plural line followed
\* by msgstr[0] and msgstr[1] exactly when the k-th catalog entry has a
\* plural string, and a single msgstr line otherwise; an entry whose plural
\* argument was not a string literal (no plural string) has no msgid_plural
\* line.
C11_SerializerPluralForm ==
    pc = "done" =>
        LET ps == MsgidLines(out)
        IN /\ Len(ps) = Len(messages)
           /\ \A k \in 1..Len(ps) :
                 IF messages[k].plural # NoneV
                 THEN /\ TagsAfter(out, ps[k])
                           = <<"msgid_plural", "msgstr[0]", "msgstr[1]">>
                      /\ out[ps[k] + 1].val = messages[k].plural
                 ELSE TagsAfter(out, ps[k]) = <<"msgstr">>

\* -------------------------------------------------------------------- C12
\* the matches ms in the order of their position in the buffer
RECURSIVE ByPosition(_)
ByPosition(ms) ==
    IF ms = <<>> THEN <<>>
    ELSE LET k == CHOOSE i \in 1..Len(ms) :
                     \A j \in 1..Len(ms) : ms[i].start <= ms[j].start
         IN <<ms[k]>> \o ByPosition(SubSeq(ms, 1, k - 1)
                                    \o SubSeq(ms, k + 1, Len(ms)))

\* C12: when a scanned buffer holds several terminated calls, the addMessage
\* calls made for it are the messages of the buffer in the order of their
\* position, whatever their shapes, so that the pending comments go to the
\* leftmost message.
C12_LeftToRightInsertion ==
    [][(Scanned /\ pc' = "cpp") =>
          LET ins == Inserted(ByPosition(CppMatches(line')))
          IN /\ Len(calls') = Len(calls) + Len(ins)
             /\ \A i \in 1..Len(ins) :
                   calls'[Len(calls) + i].key
                      = <<ins[i].context, ins[i].msgid>>
             /\ (ins # <<>> =>
                    calls'[Len(calls) + 1].buf = lastTranslatorsComment)]_vars

\* -------------------------------------------------------------------- C13
\* this step of addRc read a CAPTION statement
CaptionStep == RcStep /\ IsCaption(read'[Len(read')])

\* the label of the statement read by this step of addRc
LabelRead == RcStatement(read'[Len(read')]).msgid

\* C13 as stated: a CAPTION statement sets the current context and nothing
\* else: the catalog has the same size and the pending comments are the
\* same after it.
C13_CaptionContextOnly ==
    [][CaptionStep =>
          /\ context' = LabelRead
          /\ Len(messages') = Len(messages)
          /\ calls' = calls
          /\ lastTranslatorsComment' = lastTranslatorsComment]_vars

\* C13 amended: a CAPTION statement with a non-empty label sets the current
\* context to its label and is inserted itself, with the label as context
\* and as msgid: one addMessage call, which takes the pending comments and
\* clears them; the catalog grows by one entry exactly when the key is new.
C13_CaptionSetsContextAndIsInserted ==
    [][(CaptionStep /\ Truthy(LabelRead)) =>
          /\ pc' = "rc"
          /\ context' = LabelRead
          /\ Len(calls') = Len(calls) + 1
          /\ SubSeq(calls', 1, Len(calls)) = calls
          /\ calls'[Len(calls')].key = <<LabelRead, LabelRead>>
          /\ calls'[Len(calls')].buf = lastTranslatorsComment
          /\ lastTranslatorsComment' = <<>>
          /\ Len(messages') =
                Len(messages)
                + (IF IndexOf(messages, <<LabelRead, LabelRead>>) = 0
                   THEN 1 ELSE 0)
          /\ LET e == messages'[IndexOf(messages', <<LabelRead, LabelRead>>)]
             IN /\ e.context = LabelRead
                /\ e.msgid = LabelRead
                /\ Len(e.comments) >= Len(lastTranslatorsComment)
                /\ SubSeq(e.comments,
                          Len(e.comments) - Len(lastTranslatorsComment) + 1,
                          Len(e.comments)) = lastTranslatorsComment]_vars

\* a CAPTION statement was read while comments were pending: it is the last
\* message inserted, it took the comments, and its entry is in the catalog
C13_Witness ==
    /\ pc = "rc"
    /\ read # <<>>
    /\ IsCaption(read[Len(read)])
    /\ context = RcStatement(read[Len(read)]).msgid
    /\ calls # <<>>
    /\ calls[Len(calls)].key = <<context, context>>
    /\ calls[Len(calls)].buf # <<>>
    /\ lastTranslatorsComment = <<>>
    /\ IndexOf(messages, <<context, context>>) # 0

\* ------------------------------------------------- lines seen by the tracker
\* this step handed a line to handleTranslatorsComment: an iteration of the
\* for loop of addCpp or of addRc
Tracked == (pc = "cpp" /\ nreads' = nreads + 1) \/ RcStep

\* the line handed to it
TrackedLine == IF pc = "cpp" THEN line' ELSE read'[Len(read')] \o <<"N">>

\* the first token of a line that is not a blank, "" if there is none
FirstToken(t) ==
    LET is == {i \in 1..Len(t) : t[i] # "S" /\ t[i] # "N"}
    IN IF is = {} THEN ""
       ELSE t[CHOOSE i \in is : \A j \in is : i <= j]

\* the text of a comment line: what follows the comment marker
TextAfterMarker(t) ==
    LET k == CHOOSE i \in 1..Len(t) : t[i] = FirstToken(t)
    IN SubSeq(t, k + 1, Len(t) - 1)

\* -------------------------------------------------------------------- C14
\* C14: a '// Translators:' line read while the tracker is idle (the
\* earlier run, if any, has ended) starts the pending comments afresh: after
\* it they hold the text of that line and nothing of an earlier run.
C14_UnattachedCommentsDiscarded ==
    [][(Tracked /\ FirstToken(TrackedLine) = "K" /\ ~inTranslatorsComment) =>
          lastTranslatorsComment' = <<TextAfterMarker(TrackedLine)>>]_vars

\* -------------------------------------------------------------------- C15
\* the addMessage calls made by this step
NewCalls == SubSeq(calls', Len(calls) + 1, Len(calls'))

\* s ends with t
IsSuffix(t, s) ==
    Len(t) <= Len(s) /\ SubSeq(s, Len(s) - Len(t) + 1, Len(s)) = t

\* C15: the pending comments are emptied by an addMessage call, which
\* attaches them to the entry of its key (new or not), and by nothing else;
\* the first message inserted after a comment run receives the pending
\* comments, and every further message inserted before the next comment
\* line receives none; the catalog changes only by addMessage calls, and
\* the pending comments get filled only by a comment line.
C15_OneCommentRunPerInsertion ==
    /\ [][(lastTranslatorsComment # <<>> /\ lastTranslatorsComment' = <<>>)
            => NewCalls # <<>>]_vars
    /\ [][NewCalls # <<>> =>
            /\ NewCalls[1].buf = lastTranslatorsComment
            /\ IsSuffix(lastTranslatorsComment,
                   messages'[IndexOf(messages', NewCalls[1].key)].comments)
            /\ \A j \in 2..Len(NewCalls) : NewCalls[j].buf = <<>>
            /\ \A i \in 1..Len(messages') :
                  (i > Len(messages) /\ messages'[i].key # NewCalls[1].key)
                     => messages'[i].comments = <<>>
            /\ lastTranslatorsComment' = <<>>]_vars
    /\ [][NewCalls = <<>> => messages' = messages]_vars
    /\ [][(lastTranslatorsComment = <<>> /\ lastTranslatorsComment' # <<>>)
            => /\ Tracked
               /\ FirstToken(TrackedLine) \in {"K", "G"}
               /\ lastTranslatorsComment' = <<TextAfterMarker(TrackedLine)>>
               /\ NewCalls = <<>>]_vars

\* one line after a comment run inserted two messages: the first call took
\* the run, the second took nothing, and the second entry has no comments
C15_Witness ==
    /\ Len(calls) = 2
    /\ nreads = 2
    /\ calls[1].buf # <<>>
    /\ calls[2].buf = <<>>
    /\ calls[1].key # calls[2].key
    /\ Len(messages) = 2
    /\ messages[1].comments = calls[1].buf
    /\ messages[2].comments = <<>>
    /\ lastTranslatorsComment = <<>>

\* -------------------------------------------------------------------- C16
\* this step treated the line it read as a comment: the text is appended to
\* the pending comments, the tracker is collecting, and the line is not
\* scanned (nothing is inserted, addCpp needs no further line, the context
\* of addRc stays)
ConsumedAsComment ==
    /\ inTranslatorsComment'
    /\ lastTranslatorsComment' =
          Append(lastTranslatorsComment, TextAfterMarker(TrackedLine))
    /\ pc' = pc
    /\ UNCHANGED <<messages, calls, context, err>>

\* this step handed the line it read to the extractor, with the pending
\* comments as they were: the tracker is idle, and the pending comments are
\* the same after the step unless an addMessage call took them, all of them
HandedToExtractor ==
    /\ ~inTranslatorsComment'
    /\ IF NewCalls = <<>>
       THEN lastTranslatorsComment' = lastTranslatorsComment
       ELSE NewCalls[1].buf = lastTranslatorsComment
    /\ pc = "cpp" =>
          \A ms \in {CppMatches(TrackedLine)} :
             IF Unterminated(ms) THEN pc' = "scan"
             ELSE Len(NewCalls) = Len(Inserted(ms))

\* C16: the tracker consumes a line exactly when it is a '// Translators:'
\* line, in either state, or a '// ' line while collecting; a '// ' line
\* while idle, and any other line in either state, goes to the extractor
\* with the tracker idle and the pending comments unchanged.
C16_CommentTrackerStateMachine ==
    [][Tracked =>
          IF \/ FirstToken(TrackedLine) = "K"
             \/ FirstToken(TrackedLine) = "G" /\ inTranslatorsComment
          THEN ConsumedAsComment
          ELSE HandedToExtractor]_vars

\* the second line read was not a comment; the tracker, which was
\* collecting, is idle, and the message of the line took the pending comment
C16_Witness ==
    /\ nreads = 2
    /\ pc = "cpp"
    /\ ~inTranslatorsComment
    /\ FirstToken(line) \notin {"K", "G"}
    /\ Len(calls) = 1
    /\ Len(calls[1].buf) = 1
    /\ lastTranslatorsComment = <<>>

\* -------------------------------------------------------------------- C17
\* message data with an empty msgid, as a caller could hand it to addMessage
EmptyMsgidData ==
    [context : {NoneV, <<>>, <<"a">>}, msgid : {<<>>, NoneV},
     hasPlural : BOOLEAN, plural : {NoneV, <<"a">>}]

\* C17: in every reachable state, addMessage called with an empty msgid
\* fails and returns the catalog and the pending comments as they are; every
\* catalog entry has a non-empty msgid; no addMessage call made by addCpp or
\* addRc had an empty msgid; and a control statement with an empty label
\* read under a caption is skipped.
C17_EmptyIdentity ==
    /\ [](\A d \in EmptyMsgidData :
             addMessage(messages, lastTranslatorsComment, d)
                = [ok |-> FALSE, messages |-> messages,
                   ltc |-> lastTranslatorsComment])
    /\ [](\A i \in 1..Len(messages) :
             Truthy(messages[i].msgid) /\ Truthy(messages[i].key[2]))
    /\ [](\A j \in 1..Len(calls) : Truthy(calls[j].key[2]))
    /\ [][(RcStep /\ IsControl(read'[Len(read')]) /\ ~Truthy(LabelRead)
             /\ Truthy(context)) =>
            /\ pc' = "rc"
            /\ UNCHANGED <<messages, calls, lastTranslatorsComment, context>>]_vars

\* addRc read a control statement with an empty label under a caption while
\* comments were pending, and goes on with the comments still pending
C17_Witness ==
    /\ pc = "rc"
    /\ read # <<>>
    /\ IsControl(read[Len(read)])
    /\ RcStatement(read[Len(read)]).msgid = <<>>
    /\ Truthy(context)
    /\ lastTranslatorsComment # <<>>

\* -------------------------------------------------------------------- C18
\* C18: a written file has no two entries with the same msgid and the same
\* msgctxt line (or both without a msgctxt line).
C18_UniqueRenderedIdentity ==
    pc = "done" =>
        LET hs == WrittenHeads(out, 1)
        IN \A i, j \in 1..Len(hs) : hs[i] = hs[j] => i = j

\* -------------------------------------------------------------------- C19
\* a CAPTION statement with a non-empty label is among the lines rd
HasNamedCaption(rd) ==
    \E i \in 1..Len(rd) : IsCaption(rd[i]) /\ Truthy(RcStatement(rd[i]).msgid)

\* C19: addRc aborts only on a control statement that no CAPTION statement
\* precedes in the file; after a CAPTION statement with a non-empty label
\* no statement of the file aborts the run.
C19_AbortOnlyWithoutCaption ==
    /\ [][(RcStep /\ pc' = "aborted") =>
            IsControl(read'[Len(read')]) /\ ~HasCaption(read)]_vars
    /\ [][(RcStep /\ HasNamedCaption(read)) => pc' = "rc"]_vars

\* ===================================================== tools/sortKeymap.py
\* A keymap line is a record of the parts the patterns of lines 10-14 tell
\* apart: the command (kind), whether the action id of an ACT line is the
\* quoted hexadecimal string the ACT pattern asks for (hexId), the section,
\* the description (ACT, SCR) or action id (KEY) as name, the modifiers and
\* key of a KEY line, and whether the line ends with a line break (nl).
\* Strings are sequences of character codes.

MaxLines == 3    \* lines of the keymap file

\* Python's < on strings
RECURSIVE StrLess(_, _)
StrLess(s, t) ==
    IF t = <<>> THEN FALSE
    ELSE IF s = <<>> THEN TRUE
    ELSE IF s[1] # t[1] THEN s[1] < t[1]
    ELSE StrLess(Tail(s), Tail(t))

\* Python's < on tuples of strings
RECURSIVE TupleLess(_, _)
TupleLess(a, b) ==
    IF b = <<>> THEN FALSE
    ELSE IF a = <<>> THEN TRUE
    ELSE IF a[1] # b[1] THEN StrLess(a[1], b[1])
    ELSE TupleLess(Tail(a), Tail(b))

\* parseLine(line): the pattern that matches, "none" if no pattern does
parseLine(l) ==
    IF l.kind = "ACT" /\ l.hexId THEN "ACT"
    ELSE IF l.kind \in {"SCR", "KEY"} THEN l.kind
    ELSE "none"

\* the sort keys of lines 40-42
SortKey(l) ==
    IF l.kind = "KEY" THEN <<l.section, l.name, l.mods, l.key>>
    ELSE <<l.section, l.name>>

\* list.sort is stable: a line goes after the lines whose key is not greater
RECURSIVE InsertSorted(_, _)
InsertSorted(x, ls) ==
    IF ls = <<>> THEN <<x>>
    ELSE IF TupleLess(SortKey(x), SortKey(ls[1])) THEN <<x>> \o ls
    ELSE <<ls[1]>> \o InsertSorted(x, Tail(ls))

RECURSIVE SortStable(_)
SortStable(ls) ==
    IF ls = <<>> THEN <<>>
    ELSE InsertSorted(ls[Len(ls)], SortStable(SubSeq(ls, 1, Len(ls) - 1)))

\* match.group(0) + '\n'
WithLineBreak(l) == [l EXCEPT !.nl = TRUE]

\* sortKeyMap(lines): ok is FALSE when line 38 raises
sortKeyMap(ls) ==
    IF \E i \in 1..Len(ls) : parseLine(ls[i]) = "none"
    THEN [ok |-> FALSE, lines |-> <<>>]
    ELSE LET grp(k) == SortStable(SelectSeq(ls, LAMBDA l : parseLine(l) = k))
             all == grp("ACT") \o grp("SCR") \o grp("KEY")
         IN [ok |-> TRUE,
             lines |-> [i \in 1..Len(all) |-> WithLineBreak(all[i])]]

\* the lines a keymap file is made of
KeymapLines ==
    { [kind |-> "ACT", hexId |-> TRUE, section |-> <<1>>, name |-> <<2>>,
       mods |-> <<>>, key |-> <<>>, nl |-> TRUE],
      [kind |-> "ACT", hexId |-> TRUE, section |-> <<1>>, name |-> <<1>>,
       mods |-> <<>>, key |-> <<>>, nl |-> TRUE],
      [kind |-> "SCR", hexId |-> FALSE, section |-> <<0>>, name |-> <<1>>,
       mods |-> <<>>, key |-> <<>>, nl |-> TRUE],
      [kind |-> "KEY", hexId |-> FALSE, section |-> <<1, 0>>, name |-> <<1>>,
       mods |-> <<1>>, key |-> <<1>>, nl |-> TRUE],
      [kind |-> "KEY", hexId |-> FALSE, section |-> <<9>>, name |-> <<1>>,
       mods |-> <<1>>, key |-> <<1>>, nl |-> TRUE],
      [kind |-> "ACT", hexId |-> FALSE, section |-> <<1>>, name |-> <<1>>,
       mods |-> <<>>, key |-> <<>>, nl |-> TRUE] }

\* the keymap files: up to MaxLines lines, the last one with or without a
\* line break
KeymapFiles ==
    LET full == UNION {[1..n -> KeymapLines] : n \in 0..MaxLines}
    IN {FileOf(f) : f \in full}
       \cup {FileOf([f EXCEPT ![Len(f)].nl = FALSE]) : f \in full \ {<<>>}}

\* main is called on a path args.file; with args.output, the output path
\* holds a file or not
KeymapInit ==
    /\ pc = "idle"
    /\ err = "none"
    /\ messages = <<>>
    /\ lastTranslatorsComment = <<>>
    /\ inTranslatorsComment = FALSE
    /\ out = <<>>
    /\ line = <<>>
    /\ context = NoneV
    /\ read = <<>>
    /\ calls = <<>>
    /\ nreads = 0
    /\ kpc = "start"
    /\ argTest \in BOOLEAN
    /\ argOutput \in BOOLEAN
    /\ given \in KeymapFiles \cup {NoFile}
    /\ fileAt = given
    /\ bakAt = NoFile
    /\ outAt \in IF argOutput THEN {NoFile, FileOf(<<>>)} ELSE {NoFile}
    /\ orig = <<>>
    /\ sortedLines = <<>>
    /\ ret = -1

\* lines 56-58 and testFile: with --test, a file that is not sorted makes
\* main return 1; open and sortKeyMap raise out of main
MainStart ==
    /\ kpc = "start"
    /\ IF ~argTest THEN kpc' = "read" /\ ret' = ret
       ELSE IF ~fileAt.exists \/ ~sortKeyMap(fileAt.lines).ok
       THEN kpc' = "raised" /\ ret' = ret
       ELSE IF sortKeyMap(fileAt.lines).lines = fileAt.lines
       THEN kpc' = "read" /\ ret' = ret
       ELSE kpc' = "returned" /\ ret' = 1
    /\ UNCHANGED <<argTest, argOutput, given, fileAt, bakAt, outAt, orig,
                   sortedLines>>
    /\ UNCHANGED makePotVars

\* lines 59-64: read the lines of the file
MainRead ==
    /\ kpc = "read"
    /\ IF fileAt.exists
       THEN orig' = fileAt.lines /\ kpc' = "backup"
       ELSE orig' = orig /\ kpc' = "raised"
    /\ UNCHANGED <<argTest, argOutput, given, fileAt, bakAt, outAt,
                   sortedLines, ret>>
    /\ UNCHANGED makePotVars

\* lines 65-66: sorting in place, the file is renamed to the .bak path
MainBackup ==
    /\ kpc = "backup"
    /\ kpc' = "sort"
    /\ IF ~argOutput
       THEN bakAt' = fileAt /\ fileAt' = NoFile
       ELSE UNCHANGED <<bakAt, fileAt>>
    /\ UNCHANGED <<argTest, argOutput, given, outAt, orig, sortedLines, ret>>
    /\ UNCHANGED makePotVars

\* lines 67-68: sort; a line no pattern matches raises
MainSort ==
    /\ kpc = "sort"
    /\ IF sortKeyMap(orig).ok
       THEN sortedLines' = sortKeyMap(orig).lines /\ kpc' = "open"
       ELSE sortedLines' = sortedLines /\ kpc' = "except"
    /\ UNCHANGED <<argTest, argOutput, given, fileAt, bakAt, outAt, orig, ret>>
    /\ UNCHANGED makePotVars

\* the file at the output path becomes f
SetOutFile(f) ==
    IF argOutput
    THEN outAt' = f /\ fileAt' = fileAt
    ELSE fileAt' = f /\ outAt' = outAt

\* line 69: open(outFn, 'x') creates the file; it raises when the path
\* holds a file, and when the system refuses
MainOpen ==
    /\ kpc = "open"
    /\ IF (IF argOutput THEN outAt ELSE fileAt).exists
       THEN kpc' = "except" /\ UNCHANGED <<fileAt, outAt>>
       ELSE \/ kpc' = "write" /\ SetOutFile(FileOf(<<>>))
            \/ kpc' = "except" /\ UNCHANGED <<fileAt, outAt>>
    /\ UNCHANGED <<argTest, argOutput, given, bakAt, orig, sortedLines, ret>>
    /\ UNCHANGED makePotVars

\* lines 70-71: the lines are written and main returns 0, or the write (or
\* the close) fails with some of the lines in the file
MainWrite ==
    /\ kpc = "write"
    /\ \/ /\ SetOutFile(FileOf(sortedLines))
          /\ kpc' = "returned"
          /\ ret' = 0
       \/ /\ \E k \in 0..Len(sortedLines) :
                SetOutFile(FileOf(SubSeq(sortedLines, 1, k)))
          /\ kpc' = "except"
          /\ ret' = ret
    /\ UNCHANGED <<argTest, argOutput, given, bakAt, orig, sortedLines>>
    /\ UNCHANGED makePotVars

\* variant of MainExcept: the handler does not rename the .bak file back
MainExceptNoRestore ==
    /\ kpc = "except"
    /\ kpc' = "returned"
    /\ ret' = 1
    /\ UNCHANGED <<argTest, argOutput, given, fileAt, bakAt, outAt, orig,
                   sortedLines>>
    /\ UNCHANGED makePotVars

\* lines 72-76: sorting in place, the .bak file is renamed back over
\* whatever is at the path; main returns 1
MainExcept ==
    /\ kpc = "except"
    /\ kpc' = "returned"
    /\ ret' = 1
    /\ IF ~argOutput
       THEN fileAt' = bakAt /\ bakAt' = NoFile
       ELSE UNCHANGED <<fileAt, bakAt>>
    /\ UNCHANGED <<argTest, argOutput, given, outAt, orig, sortedLines>>
    /\ UNCHANGED makePotVars

KeymapNext ==
    \/ MainStart
    \/ MainRead
    \/ MainBackup
    \/ MainSort
    \/ MainOpen
    \/ MainWrite
    \/ MainExcept

SpecKeymap == KeymapInit /\ [][KeymapNext]_vars

\* -------------------------------------------------------------------- C20
\* the place of a command in the sorted file
Rank(k) == IF k = "ACT" THEN 1 ELSE IF k = "SCR" THEN 2 ELSE 3

\* how many of the lines ls are the line l, whatever their line ends
Count(ls, l) ==
    Cardinality({i \in 1..Len(ls) : WithLineBreak(ls[i]) = WithLineBreak(l)})

\* ls holds the records of gs, sorted: the same lines, each ended by a line
\* break, ACT before SCR before KEY, each command in the order of its keys
IsSortedKeymapOf(ls, gs) ==
    /\ Len(ls) = Len(gs)
    /\ \A i \in 1..Len(ls) : ls[i].nl /\ parseLine(ls[i]) # "none"
    /\ \A i \in 1..Len(gs) : Count(ls, gs[i]) = Count(gs, gs[i])
    /\ \A i, j \in 1..Len(ls) :
          i < j =>
             \/ Rank(ls[i].kind) < Rank(ls[j].kind)
             \/ /\ ls[i].kind = ls[j].kind
                /\ ~TupleLess(SortKey(ls[j]), SortKey(ls[i]))

\* C20: when main, sorting in place, has returned, the path holds a file,
\* which is the sorted records of the original file if main returned 0 and
\* the original file if main returned 1.
C20_InPlaceNeverLosesKeymap ==
    (kpc = "returned" /\ ~argOutput) =>
        /\ fileAt.exists
        /\ ret \in {0, 1}
        /\ ret = 0 => IsSortedKeymapOf(fileAt.lines, given.lines)
        /\ ret = 1 => fileAt = given

\* main sorted the lines, creating or writing the file failed, and main
\* returned 1 with the original, unsorted file back at the path
C20_Witness ==
    /\ kpc = "returned"
    /\ ~argOutput
    /\ ret = 1
    /\ sortedLines # <<>>
    /\ sortedLines # given.lines
    /\ fileAt = given
    /\ bakAt = NoFile

====
